---- MODULE Spec2Model ----
(***************************************************************************)
(* Entity extraction (rust-extract/src/lib.rs) and entity highlighting     *)
(* (wasm-ner/src/lib.rs) of prism-iq/pwnd.                                 *)
(*                                                                         *)
(* A text is a TLA+ string in which every character stands for one byte of *)
(* the UTF-8 text, so that Len, SubSeq and every offset are byte offsets   *)
(* as in Rust.  ASCII bytes are written as themselves.  The bytes of a     *)
(* multi-byte character are written with characters that occur in none of  *)
(* the rules: a lead byte "{", "[", "]" or "^" followed by one             *)
(* continuation byte "}" per further byte of the character.                *)
(***************************************************************************)
EXTENDS Integers, Sequences, FiniteSets, TLC

\* ------------------------------------------------------------------------
\* Bytes and characters
\* ------------------------------------------------------------------------

EAcute == "{}"      \* U+00E9, two bytes, a letter
Pound  == "[}"      \* U+00A3, two bytes
Yen    == "]}"      \* U+00A5, two bytes
Euro   == "^}}"     \* U+20AC, three bytes

Upper == {"A","B","C","D","E","F","G","H","I","J","K","L","M",
          "N","O","P","Q","R","S","T","U","V","W","X","Y","Z"}
Lower == {"a","b","c","d","e","f","g","h","i","j","k","l","m",
          "n","o","p","q","r","s","t","u","v","w","x","y","z"}
Digit == {"0","1","2","3","4","5","6","7","8","9"}
Alpha == Upper \cup Lower
Space == {" "}

\* The byte at 0-based offset i of s.
At(s, i) == SubSeq(s, i + 1, i + 1)

\* Rust's &s[a..b] for offsets already known to be character boundaries.
Slice(s, a, b) == SubSeq(s, a + 1, b)

\* str::is_char_boundary: offset i does not point at a continuation byte.
IsCharBoundary(s, i) ==
    \/ i = 0
    \/ i = Len(s)
    \/ (i > 0 /\ i < Len(s) /\ At(s, i) # "}")

\* The lead byte of the character whose last byte is at offset i.
RECURSIVE LeadAt(_, _)
LeadAt(s, i) == IF At(s, i) = "}" /\ i > 0 THEN LeadAt(s, i - 1) ELSE At(s, i)

\* \w of the regex crate (Unicode): letters, digits, underscore; of the
\* multi-byte characters modelled only U+00E9 is a letter.
IsWordChar(c) == c \in Alpha \cup Digit \cup {"_", "{"}

\* \b: exactly one of the characters before and after offset i is a word
\* character.
WordBoundary(s, i) ==
    LET before == i > 0 /\ IsWordChar(LeadAt(s, i - 1))
        after  == i < Len(s) /\ IsWordChar(At(s, i))
    IN  before # after

LowerOf(c) ==
    CASE c = "A" -> "a" [] c = "B" -> "b" [] c = "C" -> "c" [] c = "D" -> "d"
      [] c = "E" -> "e" [] c = "F" -> "f" [] c = "G" -> "g" [] c = "H" -> "h"
      [] c = "I" -> "i" [] c = "J" -> "j" [] c = "K" -> "k" [] c = "L" -> "l"
      [] c = "M" -> "m" [] c = "N" -> "n" [] c = "O" -> "o" [] c = "P" -> "p"
      [] c = "Q" -> "q" [] c = "R" -> "r" [] c = "S" -> "s" [] c = "T" -> "t"
      [] c = "U" -> "u" [] c = "V" -> "v" [] c = "W" -> "w" [] c = "X" -> "x"
      [] c = "Y" -> "y" [] c = "Z" -> "z" [] OTHER -> c

\* str::to_lowercase
RECURSIVE to_lowercase(_)
to_lowercase(s) ==
    IF Len(s) <= 1 THEN LowerOf(s)
    ELSE to_lowercase(Slice(s, 0, Len(s) \div 2))
         \o to_lowercase(Slice(s, Len(s) \div 2, Len(s)))

\* str::contains(pat)
Contains(s, pat) ==
    \E i \in 0..(Len(s) - Len(pat)) : Slice(s, i, i + Len(pat)) = pat

\* ------------------------------------------------------------------------
\* The regex crate: leftmost-first matching of a rule at a byte offset.
\* A rule is a tree of:  Lit (a literal), Set (one byte of a class),
\* Cat (sequence), Alt (ordered alternatives), Rep (greedy repetition,
\* max = -1 for no upper limit), WB (\b).
\* ------------------------------------------------------------------------

Lit(str)         == [k |-> "lit", s |-> str]
Set(cs)          == [k |-> "set", cs |-> cs]
Cat(rs)          == [k |-> "cat", rs |-> rs]
Alt(rs)          == [k |-> "alt", rs |-> rs]
Rep(r, min, max) == [k |-> "rep", r |-> r, min |-> min, max |-> max]
WB               == [k |-> "wb"]
Opt(r)           == Rep(r, 0, 1)
Star(r)          == Rep(r, 0, -1)
Plus(r)          == Rep(r, 1, -1)

NoMatch == -1

\* Lists of end offsets put one after the other, an offset kept where it
\* comes first: the order of preference of the crate (an earlier alternative
\* first, more repetitions first).
RECURSIVE InOrderOf(_, _, _)
InOrderOf(lists, lo, hi) ==
    IF lo > hi THEN <<>>
    ELSE IF lo = hi THEN lists[lo]
    ELSE LET mid    == (lo + hi) \div 2
             sooner == InOrderOf(lists, lo, mid)
             later  == InOrderOf(lists, mid + 1, hi)
         IN  IF later = <<>> THEN sooner
             ELSE IF sooner = <<>> THEN later
             ELSE sooner \o SelectSeq(later,
                                      LAMBDA e : \A n \in 1..Len(sooner) : sooner[n] # e)
InOrder(lists) == InOrderOf(lists, 1, Len(lists))

\* The end offsets of the ways rule r matches at offset i of s, in the
\* crate's order of preference (leftmost-first semantics): the match the
\* crate reports is the first of them.
RECURSIVE Ends(_, _, _)
RECURSIVE CatEnds(_, _, _, _, _)
RECURSIVE RepEnds(_, _, _, _, _)
Ends(r, s, i) ==
    CASE r.k = "lit" ->
           IF i + Len(r.s) <= Len(s) /\ Slice(s, i, i + Len(r.s)) = r.s
           THEN <<i + Len(r.s)>> ELSE <<>>
      [] r.k = "set" ->
           IF i < Len(s) /\ At(s, i) \in r.cs THEN <<i + 1>> ELSE <<>>
      [] r.k = "wb" ->
           IF WordBoundary(s, i) THEN <<i>> ELSE <<>>
      [] r.k = "cat" -> CatEnds(r.rs, 1, Len(r.rs), s, <<i>>)
      [] r.k = "alt" -> InOrder([k \in 1..Len(r.rs) |-> Ends(r.rs[k], s, i)])
      [] r.k = "rep" /\ r.r.k = "set" ->
           \* A repeated class: the longest run of class bytes (up to max)
           \* first, then one byte less at a time down to min.
           LET most  == IF r.max < 0 \/ r.max > Len(s) - i
                        THEN Len(s) - i ELSE r.max
               stops == {n \in 0..most : n = most \/ At(s, i + n) \notin r.r.cs}
               run   == CHOOSE n \in stops : \A m \in stops : n <= m
           IN  [k \in 1..(run - r.min + 1) |-> i + run + 1 - k]
      [] r.k = "rep" /\ r.r.k # "set" -> RepEnds(r.r, r.min, r.max, s, i)
\* The rules rs[lo..hi] one after the other, from each of the offsets starts.
CatEnds(rs, lo, hi, s, starts) ==
    IF lo > hi \/ starts = <<>> THEN starts
    ELSE IF lo = hi
    THEN InOrder([k \in 1..Len(starts) |-> Ends(rs[lo], s, starts[k])])
    ELSE CatEnds(rs, (lo + hi) \div 2 + 1, hi, s,
                 CatEnds(rs, lo, (lo + hi) \div 2, s, starts))
RepEnds(r, min, max, s, i) ==
    LET once == SelectSeq(Ends(r, s, i), LAMBDA e : e > i)
        more == IF max = 0 THEN <<>>
                ELSE InOrder([k \in 1..Len(once) |->
                                RepEnds(r, IF min > 0 THEN min - 1 ELSE 0,
                                        IF max > 0 THEN max - 1 ELSE max, s, once[k])])
    IN  IF min = 0 THEN InOrder(<<more, <<i>>>>) ELSE more

\* The end offset of the match of r at offset i, or NoMatch.
MatchAt(r, s, i) ==
    LET ends == Ends(r, s, i) IN IF ends = <<>> THEN NoMatch ELSE ends[1]

\* Regex::find_iter / captures_iter: the successive non-overlapping leftmost
\* matches of rule r in s, as [start, end] records.  ends[j] is the end of the
\* match starting at offset j, if any; none of the rules matches the empty
\* string.
RECURSIVE NextMatches(_, _, _)
NextMatches(ends, n, i) ==
    LET starts == {j \in i..(n - 1) : ends[j] # NoMatch /\ ends[j] > j}
    IN  IF starts = {} THEN <<>>
        ELSE LET j == CHOOSE a \in starts : \A b \in starts : a <= b
             IN  <<[start |-> j, end |-> ends[j]]>> \o NextMatches(ends, n, ends[j])
FindIter(r, s) ==
    NextMatches([j \in 0..(Len(s) - 1) |-> MatchAt(r, s, j)], Len(s), 0)

\* ------------------------------------------------------------------------
\* Pattern catalog of the extraction engine (rust-extract)
\* ------------------------------------------------------------------------

\* \s and \d restricted to the bytes that occur in the modelled texts.
WS == Set(Space)
D  == Set(Digit)
UC == Set(Upper)
LC == Set(Lower)

\* An ordered alternation of literals, (?:a|b|c).
RECURSIVE LitSeq(_)
LitSeq(strs) == IF strs = <<>> THEN <<>> ELSE <<Lit(Head(strs))>> \o LitSeq(Tail(strs))
Words(strs) == Alt(LitSeq(strs))

\* [A-Z][a-z]+
CapWord == Cat(<<UC, Plus(LC)>>)
\* [A-Z][A-Za-z]*
CapToken == Cat(<<UC, Star(Set(Alpha))>>)

Month ==
    Alt(<<Cat(<<Lit("Jan"), Opt(Lit("uary"))>>),
          Cat(<<Lit("Feb"), Opt(Lit("ruary"))>>),
          Cat(<<Lit("Mar"), Opt(Lit("ch"))>>),
          Cat(<<Lit("Apr"), Opt(Lit("il"))>>),
          Lit("May"),
          Cat(<<Lit("Jun"), Opt(Lit("e"))>>),
          Cat(<<Lit("Jul"), Opt(Lit("y"))>>),
          Cat(<<Lit("Aug"), Opt(Lit("ust"))>>),
          Cat(<<Lit("Sep"), Opt(Cat(<<Lit("t"), Opt(Lit("ember"))>>))>>),
          Cat(<<Lit("Oct"), Opt(Lit("ober"))>>),
          Cat(<<Lit("Nov"), Opt(Lit("ember"))>>),
          Cat(<<Lit("Dec"), Opt(Lit("ember"))>>)>>)

DATE_PATTERNS ==
    << Cat(<<WB, Rep(D, 4, 4), Lit("-"), Rep(D, 2, 2), Lit("-"), Rep(D, 2, 2), WB>>),
       Cat(<<WB, Rep(D, 1, 2), Lit("/"), Rep(D, 1, 2), Lit("/"), Rep(D, 2, 4), WB>>),
       Cat(<<WB, Rep(D, 1, 2), Set({"-", "."}), Rep(D, 1, 2), Set({"-", "."}),
             Rep(D, 2, 4), WB>>),
       Cat(<<WB, Month, Plus(WS), Rep(D, 1, 2), Opt(Words(<<"st", "nd", "rd", "th">>)),
             Opt(Lit(",")), Star(WS), Rep(D, 4, 4), WB>>),
       Cat(<<WB, Month, Plus(WS), Rep(D, 4, 4), WB>>) >>

PERSON_PATTERNS ==
    << Cat(<<WB, CapWord, Opt(Cat(<<Plus(WS), UC, Opt(Lit("."))>>)), Plus(WS), CapWord,
             Opt(Cat(<<Plus(WS), Words(<<"Jr", "Sr", "III", "IV", "II">>), Opt(Lit("."))>>)),
             WB>>),
       Cat(<<WB, Words(<<"Mr", "Mrs", "Ms", "Miss", "Dr", "Prof", "Rev", "Hon", "Sir", "Dame">>),
             Opt(Lit(".")), Plus(WS), CapWord, Plus(Cat(<<Plus(WS), CapWord>>)), WB>>),
       Cat(<<WB, CapWord, Lit(","), Plus(WS), CapWord,
             Opt(Cat(<<Plus(WS), UC, Lit(".")>>)), WB>>) >>

ORG_PATTERNS ==
    << Cat(<<WB, CapToken, Star(Cat(<<Plus(WS), CapToken>>)), Plus(WS),
             Words(<<"Inc", "Corp", "LLC", "Ltd", "LLP", "Co", "Company", "Corporation",
                     "Group", "Holdings", "Partners", "Associates", "Foundation",
                     "Institute", "University", "Bank", "Trust", "Fund", "Capital",
                     "Ventures", "International", "Worldwide", "Global">>),
             Opt(Lit(".")), WB>>),
       Cat(<<WB, Lit("The"), Plus(WS), CapToken, Star(Cat(<<Plus(WS), CapToken>>)), Plus(WS),
             Words(<<"Organization", "Foundation", "Institute", "Association", "Society",
                     "Council", "Committee", "Commission", "Agency", "Bureau",
                     "Department", "Ministry">>),
             WB>>),
       Cat(<<WB, Rep(UC, 2, 6), WB>>) >>

\* \d{1,3}(?:,\d{3})*(?:\.\d{2})?
Grouped == Cat(<<Rep(D, 1, 3), Star(Cat(<<Lit(","), Rep(D, 3, 3)>>)),
                 Opt(Cat(<<Lit("."), Rep(D, 2, 2)>>))>>)
\* \d+(?:\.\d+)?
Decimal == Cat(<<Plus(D), Opt(Cat(<<Lit("."), Plus(D)>>))>>)

AMOUNT_PATTERNS ==
    << Cat(<<Words(<<"$", "USD", "EUR", Euro, Pound, "GBP", Yen, "JPY">>), Star(WS), Grouped>>),
       Cat(<<Grouped, Star(WS),
             Alt(<<Lit("USD"), Lit("EUR"), Lit("GBP"), Lit("JPY"),
                   Cat(<<Lit("dollar"), Opt(Lit("s"))>>),
                   Cat(<<Lit("euro"), Opt(Lit("s"))>>),
                   Cat(<<Lit("pound"), Opt(Lit("s"))>>)>>)>>),
       Cat(<<Words(<<"$", "USD", "EUR", Euro, Pound>>), Star(WS), Decimal, Star(WS),
             Words(<<"million", "billion", "thousand", "M", "B", "K">>)>>),
       Cat(<<Decimal, Star(WS), Words(<<"million", "billion", "thousand">>), Star(WS),
             Alt(<<Cat(<<Lit("dollar"), Opt(Lit("s"))>>), Lit("USD"),
                   Cat(<<Lit("euro"), Opt(Lit("s"))>>), Lit("EUR"),
                   Cat(<<Lit("pound"), Opt(Lit("s"))>>), Lit("GBP")>>)>>) >>

LOCATION_PATTERNS ==
    << Cat(<<WB, CapWord, Star(Cat(<<Plus(WS), CapWord>>)), Lit(","), Star(WS),
             Alt(<<Rep(UC, 2, 2), Cat(<<CapWord, Star(Cat(<<Plus(WS), CapWord>>))>>)>>),
             WB>>),
       Cat(<<WB,
             Alt(<<Lit("New York"), Lit("Los Angeles"), Lit("London"), Lit("Paris"),
                   Lit("Tokyo"), Lit("Hong Kong"), Lit("Singapore"), Lit("Dubai"),
                   Lit("Miami"), Lit("Washington"), Lit("Virgin Islands"),
                   Cat(<<Lit("Little St"), Opt(Lit(".")), Lit(" James")>>),
                   Lit("Palm Beach"), Lit("Manhattan"), Lit("Florida"),
                   Lit("California"), Lit("Texas")>>),
             WB>>),
       Cat(<<WB, Plus(D), Plus(WS), CapWord, Star(Cat(<<Plus(WS), CapWord>>)), Plus(WS),
             Words(<<"Street", "St", "Avenue", "Ave", "Road", "Rd", "Boulevard", "Blvd",
                     "Drive", "Dr", "Lane", "Ln", "Court", "Ct", "Way", "Place", "Pl">>),
             Opt(Lit(".")), WB>>) >>

EMAIL_PATTERN ==
    Cat(<<WB, Plus(Set(Alpha \cup Digit \cup {".", "_", "%", "+", "-"})), Lit("@"),
          Plus(Set(Alpha \cup Digit \cup {".", "-"})), Lit("."), Rep(Set(Alpha), 2, -1), WB>>)

PHONE_PATTERN ==
    Cat(<<Opt(Cat(<<Opt(Lit("+")), Lit("1"), Opt(Set({"-", ".", " "}))>>)),
          Opt(Lit("(")), Rep(D, 3, 3), Opt(Lit(")")), Opt(Set({"-", ".", " "})),
          Rep(D, 3, 3), Opt(Set({"-", ".", " "})), Rep(D, 4, 4)>>)

UrlBody == Alpha \cup Digit \cup {"-", "+", "&", "@", "#", "/", "%", "=", "~", "_", "|"}
URL_PATTERN ==
    Cat(<<Lit("http"), Opt(Lit("s")), Lit("://"), Set(Alpha \cup Digit),
          Star(Set(UrlBody \cup {"?", "!", ":", ",", ".", ";"})), Set(UrlBody)>>)

\* ------------------------------------------------------------------------
\* Extraction functions (rust-extract)
\* ------------------------------------------------------------------------

\* Option<T>
None    == <<>>
Some(x) == <<x>>

\* The outcome of a call: a returned value, or a panic that unwinds the call.
Returned(v) == [ok |-> TRUE, v |-> v]
Panicked    == [ok |-> FALSE, v |-> <<>>]

\* Context window of extract_with_patterns, in bytes on each side.
ContextWindow == 50

\* usize::saturating_sub
saturating_sub(a, b) == IF a >= b THEN a - b ELSE 0
min(a, b) == IF a <= b THEN a ELSE b

\* Mutant: the offsets of the context window are stored in the entity.
Entity_WindowOffsets(value, entity_type, m, base_confidence, context) ==
    [value       |-> value,
     entity_type |-> entity_type,
     start       |-> saturating_sub(m.start, ContextWindow),
     end         |-> m.end,
     confidence  |-> base_confidence,
     context     |-> Some(context),
     metadata    |-> None]

\* The Entity pushed by extract_with_patterns for the match m.
Entity(value, entity_type, m, base_confidence, context) ==
    [value       |-> value,
     entity_type |-> entity_type,
     start       |-> m.start,
     end         |-> m.end,
     confidence  |-> base_confidence,
     context     |-> Some(context),
     metadata    |-> None]

\* The body of the loop over one rule's matches: skip a value already seen,
\* otherwise cut the context out of the text (which panics when an end of the
\* window is not a character boundary) and push the entity.
\* acc = [ok, entities, seen].
RECURSIVE ScanRule(_, _, _, _, _)
ScanRule(ms, acc, txt, entity_type, base_confidence) ==
    IF ms = <<>> \/ ~acc.ok THEN acc
    ELSE
      LET m          == Head(ms)
          value      == Slice(txt, m.start, m.end)
          normalized == to_lowercase(value)
          start      == saturating_sub(m.start, ContextWindow)
          end        == min(m.end + ContextWindow, Len(txt))
          next ==
            IF normalized \in acc.seen THEN acc
            ELSE IF ~(IsCharBoundary(txt, start) /\ IsCharBoundary(txt, end))
            THEN [acc EXCEPT !.ok = FALSE]
            ELSE [ok       |-> TRUE,
                  seen     |-> acc.seen \cup {normalized},
                  entities |-> Append(acc.entities,
                                Entity(value, entity_type, m, base_confidence,
                                       Slice(txt, start, end)))]
      IN  ScanRule(Tail(ms), next, txt, entity_type, base_confidence)

RECURSIVE ScanRules(_, _, _, _, _)
ScanRules(patterns, acc, txt, entity_type, base_confidence) ==
    IF patterns = <<>> \/ ~acc.ok THEN acc
    ELSE ScanRules(Tail(patterns),
                   ScanRule(FindIter(Head(patterns), txt), acc, txt, entity_type,
                            base_confidence),
                   txt, entity_type, base_confidence)

\* Mutant: the entities are returned in the order of their start offsets.
extract_with_patterns_ByStart(txt, patterns, entity_type, base_confidence) ==
    LET acc == ScanRules(patterns, [ok |-> TRUE, seen |-> {}, entities |-> <<>>],
                         txt, entity_type, base_confidence)
        es    == acc.entities
        place == [i \in 1..Len(es) |->
                    1 + Cardinality({j \in 1..Len(es) :
                                       \/ es[j].start < es[i].start
                                       \/ es[j].start = es[i].start /\ j < i})]
    IN  IF acc.ok
        THEN Returned([n \in 1..Len(es) |-> es[CHOOSE i \in 1..Len(es) : place[i] = n]])
        ELSE Panicked

extract_with_patterns(txt, patterns, entity_type, base_confidence) ==
    LET acc == ScanRules(patterns, [ok |-> TRUE, seen |-> {}, entities |-> <<>>],
                         txt, entity_type, base_confidence)
    IN  IF acc.ok THEN Returned(acc.entities) ELSE Panicked

\* Vec::retain(keep) is SelectSeq(_, keep): the kept entities, in order.

\* Confidences are written in hundredths.
extract_dates(txt) == extract_with_patterns(txt, DATE_PATTERNS, "date", 85)

blacklist ==
    {"the", "this", "that", "with", "from", "have", "will", "been",
     "january", "february", "march", "april", "may", "june",
     "july", "august", "september", "october", "november", "december",
     "monday", "tuesday", "wednesday", "thursday", "friday", "saturday", "sunday"}

\* Mutant: an entry of the list counts only as a whole word of the value.
PersonKept_WholeWord(e) ==
    LET lower == to_lowercase(e.value)
    IN  ~(\E b \in blacklist : \E i \in 0..(Len(lower) - Len(b)) :
            /\ Slice(lower, i, i + Len(b)) = b
            /\ (i = 0 \/ At(lower, i - 1) = " ")
            /\ (i + Len(b) = Len(lower) \/ At(lower, i + Len(b)) = " "))

PersonKept(e) == ~(\E b \in blacklist : Contains(to_lowercase(e.value), b))

extract_persons(txt) ==
    LET r == extract_with_patterns(txt, PERSON_PATTERNS, "person", 75)
    IN  IF r.ok THEN Returned(SelectSeq(r.v, PersonKept)) ELSE Panicked

known ==
    {"FBI", "CIA", "NSA", "SEC", "DOJ", "IRS", "EPA", "FDA", "FTC", "NYSE",
     "LLC", "CEO", "CFO"}

OrgKept(e) == IF Len(e.value) <= 3 THEN e.value \in known ELSE TRUE

extract_organizations(txt) ==
    LET r == extract_with_patterns(txt, ORG_PATTERNS, "organization", 80)
    IN  IF r.ok THEN Returned(SelectSeq(r.v, OrgKept)) ELSE Panicked

\* str::replace(from, to): every non-overlapping occurrence, left to right.
RECURSIVE replace(_, _, _)
replace(s, from, to) ==
    LET hits == {i \in 0..(Len(s) - Len(from)) : Slice(s, i, i + Len(from)) = from}
    IN  IF hits = {} THEN s
        ELSE LET i == CHOOSE a \in hits : \A b \in hits : a <= b
             IN  Slice(s, 0, i) \o to \o replace(Slice(s, i + Len(from), Len(s)), from, to)

\* str::split_whitespace().next(): the first run of non-whitespace bytes.
TakeToken(s) ==
    LET stops == {i \in 0..Len(s) : i = Len(s) \/ At(s, i) \in Space}
    IN  Slice(s, 0, CHOOSE i \in stops : \A j \in stops : i <= j)
FirstToken(s) ==
    LET starts == {i \in 0..(Len(s) - 1) : At(s, i) \notin Space}
    IN  IF starts = {} THEN None
        ELSE Some(TakeToken(Slice(s, CHOOSE i \in starts : \A j \in starts : i <= j,
                                  Len(s))))

\* An f64 is written as the decimal m * 10^e with m not divisible by 10 (or
\* m = 0, e = 0): exact for the short decimal tokens of the modelled texts.
RECURSIVE Canon(_, _)
Canon(m, e) ==
    IF m = 0 THEN [m |-> 0, e |-> 0]
    ELSE IF m % 10 = 0 THEN Canon(m \div 10, e + 1)
    ELSE [m |-> m, e |-> e]

Zero == Canon(0, 0)

\* n * 10^k
TimesPow10(n, k) == IF n.m = 0 THEN n ELSE [m |-> n.m, e |-> n.e + k]

DigitValue(c) ==
    CASE c = "0" -> 0 [] c = "1" -> 1 [] c = "2" -> 2 [] c = "3" -> 3 [] c = "4" -> 4
      [] c = "5" -> 5 [] c = "6" -> 6 [] c = "7" -> 7 [] c = "8" -> 8 [] c = "9" -> 9

DigitChar(d) == At("0123456789", d)

IsDigits(s) == \A i \in 0..(Len(s) - 1) : At(s, i) \in Digit

RECURSIVE NatOf(_)
NatOf(s) ==
    IF s = "" THEN 0
    ELSE NatOf(Slice(s, 0, Len(s) - 1)) * 10 + DigitValue(At(s, Len(s) - 1))

\* str::parse::<f64>().ok() on a token made of the bytes of an amount rule:
\* digits with an optional fraction parse, anything else does not.  (Signs,
\* exponents, "inf" and "nan" cannot occur in such a token.)
parse_f64(tok) ==
    LET dots == {i \in 0..(Len(tok) - 1) : At(tok, i) = "."}
    IN  IF dots = {}
        THEN IF tok # "" /\ IsDigits(tok) THEN Some(Canon(NatOf(tok), 0)) ELSE None
        ELSE IF Cardinality(dots) = 1
        THEN LET p    == CHOOSE i \in dots : TRUE
                 int  == Slice(tok, 0, p)
                 frac == Slice(tok, p + 1, Len(tok))
             IN  IF IsDigits(int) /\ IsDigits(frac) /\ int \o frac # ""
                 THEN Some(Canon(NatOf(int \o frac), 0 - Len(frac)))
                 ELSE None
        ELSE None

RECURSIVE NatString(_)
NatString(n) ==
    IF n < 10 THEN DigitChar(n) ELSE NatString(n \div 10) \o DigitChar(n % 10)

RECURSIVE Zeros(_)
Zeros(k) == IF k <= 0 THEN "" ELSE "0" \o Zeros(k - 1)

\* f64::to_string (Display): no exponent, no trailing ".0".
f64_to_string(n) ==
    LET ds == NatString(n.m)
    IN  IF n.e >= 0 THEN ds \o Zeros(n.e)
        ELSE IF Len(ds) > 0 - n.e
        THEN Slice(ds, 0, Len(ds) + n.e) \o "." \o Slice(ds, Len(ds) + n.e, Len(ds))
        ELSE "0." \o Zeros((0 - n.e) - Len(ds)) \o ds

\* value.split_whitespace().next().and_then(|s| s.parse::<f64>().ok())
\*      .map(|n| n * 10^k).unwrap_or(0.0)
ParseScaled(value, k) ==
    LET tok == FirstToken(value)
        n   == IF tok = None THEN None ELSE parse_f64(tok[1])
    IN  IF n = None THEN Zero ELSE TimesPow10(n[1], k)

\* The normalisation of one amount entity (the body of the loop).
NormalizeAmount(entity_value) ==
    LET value == replace(replace(replace(replace(entity_value, ",", ""), "$", ""),
                                 Euro, ""), Pound, "")
    IN  IF Contains(to_lowercase(value), "million") \/ Contains(value, "M")
        THEN ParseScaled(value, 6)
        ELSE IF Contains(to_lowercase(value), "billion") \/ Contains(value, "B")
        THEN ParseScaled(value, 9)
        ELSE ParseScaled(value, 0)

RECURSIVE WithNormalized(_)
WithNormalized(es) ==
    IF es = <<>> THEN <<>>
    ELSE <<[Head(es) EXCEPT !.metadata =
              Some([normalized |-> f64_to_string(NormalizeAmount(Head(es).value))])]>>
         \o WithNormalized(Tail(es))

extract_amounts(txt) ==
    LET r == extract_with_patterns(txt, AMOUNT_PATTERNS, "amount", 90)
    IN  IF r.ok THEN Returned(WithNormalized(r.v)) ELSE Panicked

extract_locations(txt) == extract_with_patterns(txt, LOCATION_PATTERNS, "location", 70)

\* find_iter(..).map(..).collect() of the three single-rule categories.
RECURSIVE MapMatches(_, _, _, _)
MapMatches(ms, txt, entity_type, confidence) ==
    IF ms = <<>> THEN <<>>
    ELSE <<[value       |-> Slice(txt, Head(ms).start, Head(ms).end),
            entity_type |-> entity_type,
            start       |-> Head(ms).start,
            end         |-> Head(ms).end,
            confidence  |-> confidence,
            context     |-> None,
            metadata    |-> None]>>
         \o MapMatches(Tail(ms), txt, entity_type, confidence)

extract_emails(txt) == Returned(MapMatches(FindIter(EMAIL_PATTERN, txt), txt, "email", 95))
extract_phones(txt) == Returned(MapMatches(FindIter(PHONE_PATTERN, txt), txt, "phone", 80))
extract_urls(txt)   == Returned(MapMatches(FindIter(URL_PATTERN, txt), txt, "url", 95))

\* ------------------------------------------------------------------------
\* Entity highlighter (wasm-ner)
\* ------------------------------------------------------------------------

PERSON_RE ==
    Cat(<<WB, CapWord, Opt(Cat(<<Plus(WS), UC, Opt(Lit("."))>>)), Plus(WS), CapWord, WB>>)

ORG_RE ==
    Cat(<<WB, CapToken, Star(Cat(<<Plus(WS), CapToken>>)), Plus(WS),
          Words(<<"Inc", "Corp", "LLC", "Ltd", "Foundation", "Institute", "Bank", "Trust">>),
          Opt(Lit(".")), WB>>)

AMOUNT_RE ==
    Cat(<<Lit("$"), Grouped,
          Opt(Cat(<<Star(WS), Words(<<"million", "billion", "M", "B">>)>>))>>)

DATE_RE ==
    Cat(<<WB,
          Alt(<<Cat(<<Rep(D, 4, 4), Lit("-"), Rep(D, 2, 2), Lit("-"), Rep(D, 2, 2)>>),
                Cat(<<Rep(D, 1, 2), Lit("/"), Rep(D, 1, 2), Lit("/"), Rep(D, 2, 4)>>),
                Cat(<<Words(<<"Jan", "Feb", "Mar", "Apr", "May", "Jun", "Jul", "Aug",
                              "Sep", "Oct", "Nov", "Dec">>),
                      Star(LC), Plus(WS), Rep(D, 1, 2), Opt(Lit(",")), Star(WS),
                      Rep(D, 4, 4)>>)>>),
          WB>>)

LOCATION_RE ==
    Cat(<<WB,
          Words(<<"New York", "Los Angeles", "London", "Paris", "Miami", "Washington",
                  "Virgin Islands", "Palm Beach", "Manhattan", "Florida", "California">>),
          WB>>)

EMAIL_RE == EMAIL_PATTERN

\* Mutant: the ampersand is replaced last, escaping the references again.
escape_html_AmpLast(s) ==
    replace(replace(replace(replace(replace(s, "<", "&lt;"), ">", "&gt;"),
                            "\"", "&quot;"), "'", "&#x27;"), "&", "&amp;")

escape_html(s) ==
    replace(replace(replace(replace(replace(s, "&", "&amp;"), "<", "&lt;"), ">", "&gt;"),
                    "\"", "&quot;"), "'", "&#x27;")

\* One collection loop of highlight_entities: the matches of one rule as
\* (start, end, matched text, entity type, class) tuples.
RECURSIVE Tagged(_, _, _, _)
Tagged(ms, txt, entity_type, class) ==
    IF ms = <<>> THEN <<>>
    ELSE <<[start       |-> Head(ms).start,
            end         |-> Head(ms).end,
            text        |-> Slice(txt, Head(ms).start, Head(ms).end),
            entity_type |-> entity_type,
            class       |-> class]>>
         \o Tagged(Tail(ms), txt, entity_type, class)

\* all_entities after the six collection loops.
CollectAll(txt) ==
    Tagged(FindIter(PERSON_RE, txt), txt, "person", "entity-person")
    \o Tagged(FindIter(ORG_RE, txt), txt, "organization", "entity-org")
    \o Tagged(FindIter(AMOUNT_RE, txt), txt, "amount", "entity-amount")
    \o Tagged(FindIter(DATE_RE, txt), txt, "date", "entity-date")
    \o Tagged(FindIter(LOCATION_RE, txt), txt, "location", "entity-location")
    \o Tagged(FindIter(EMAIL_RE, txt), txt, "email", "entity-email")

\* Mutant: a sort by start offset that reverses the elements of equal start.
sort_by_start_TiesReversed(es) ==
    LET place == [i \in 1..Len(es) |->
                    1 + Cardinality({j \in 1..Len(es) :
                                       \/ es[j].start < es[i].start
                                       \/ es[j].start = es[i].start /\ j > i})]
    IN  [n \in 1..Len(es) |-> es[CHOOSE i \in 1..Len(es) : place[i] = n]]

\* Vec::sort_by_key(|e| e.0): a stable sort by start offset.  Element i
\* goes after the elements that start before it and the earlier elements
\* that start where it does.
sort_by_start(es) ==
    LET place == [i \in 1..Len(es) |->
                    1 + Cardinality({j \in 1..Len(es) :
                                       \/ es[j].start < es[i].start
                                       \/ es[j].start = es[i].start /\ j < i})]
    IN  [n \in 1..Len(es) |-> es[CHOOSE i \in 1..Len(es) : place[i] = n]]

\* Mutant: the end of the match is compared instead of its start.
Accepts_EndCompared(last_end, entity) == entity.end >= last_end

\* Mutant: a match that starts where the last accepted one ends is dropped.
Accepts_StrictlyAfter(last_end, entity) == entity.start > last_end

\* The test of the overlap-removal loop.
Accepts(last_end, entity) == entity.start >= last_end

\* The markup of one accepted span.
SpanMarkup(e) ==
    "<span class=\"entity " \o e.class \o "\" data-type=\"" \o e.entity_type
    \o "\" title=\"" \o e.entity_type \o "\">" \o escape_html(e.text) \o "</span>"

HighlightedEntity(e) ==
    [text |-> e.text, entity_type |-> e.entity_type, start |-> e.start, end |-> e.end]

\* One loop of extract_entities: the matches of one rule as HighlightedEntity
\* values.
Found(ms, txt, entity_type) ==
    [k \in 1..Len(ms) |->
       [text        |-> Slice(txt, ms[k].start, ms[k].end),
        entity_type |-> entity_type,
        start       |-> ms[k].start,
        end         |-> ms[k].end]]

\* extract_entities: the loops it has, in its order.
extract_entities(txt) ==
    Found(FindIter(PERSON_RE, txt), txt, "person")
    \o Found(FindIter(ORG_RE, txt), txt, "organization")
    \o Found(FindIter(AMOUNT_RE, txt), txt, "amount")
    \o Found(FindIter(DATE_RE, txt), txt, "date")
    \o Found(FindIter(LOCATION_RE, txt), txt, "location")

\* ------------------------------------------------------------------------
\* Documents
\* ------------------------------------------------------------------------

\* The number of fragments a short document is made of, at most.
MaxFrags == 2
\* The number of documents of a batch, at most.
MaxDocs == 2
\* The number of category names of an extract_types request, at most.
MaxTypes == 2
\* The elapsed milliseconds a call measures, at most.
MaxMs == 1

Fragments ==
    << "2024-01-15", "Bill May", "New York", "FBI ABC", "a@b.co", "100 GBP", "$5 M",
       "http://a.co/555-123-4567" >>

\* The documents made of at most n of the fragments numbered from..Len(frags),
\* in the order of their numbers, separated by one space.
RECURSIVE Joined(_, _, _)
Joined(frags, from, n) ==
    IF n = 0 THEN {""}
    ELSE {""} \cup
         UNION { { IF rest = "" THEN frags[i] ELSE frags[i] \o " " \o rest :
                   rest \in Joined(frags, i, n - 1) } : i \in from..Len(frags) }

ShortTexts == Joined(Fragments, 1, MaxFrags)

\* n bytes of filler (n <= 64).
Pad(n) == Slice("****************************************************************", 0, n)

\* Documents in which a date lies about ContextWindow bytes after, or before,
\* a two-byte character.
PadLens == (ContextWindow - 3)..(ContextWindow - 1)
LongTexts ==
    {EAcute \o Pad(n) \o " 2024-01-15" : n \in PadLens}
    \cup {"2024-01-15 " \o Pad(n) \o EAcute : n \in PadLens}

\* Documents with names that hold a stopword inside a longer word.
StopwordTexts == {"Al Gore Bill Mayer Tom Hanks"}

\* Documents in which a later rule matches before an earlier one, and in
\* which a value comes back, also in another case.
RuleOrderTexts == {"100 GBP $5 M $5 M", "ABC Bank, ABc Bank"}

Texts == ShortTexts \cup LongTexts \cup StopwordTexts \cup RuleOrderTexts

\* The documents batches are made of.
BatchTexts == {"", "a@b.co", "New York", EAcute \o Pad(ContextWindow - 2) \o " 2024-01-15"}

RECURSIVE SeqsUpTo(_, _)
SeqsUpTo(S, n) ==
    IF n = 0 THEN {<<>>}
    ELSE LET shorter == SeqsUpTo(S, n - 1)
         IN  shorter \cup {Append(q, x) : q \in shorter, x \in S}

\* ------------------------------------------------------------------------
\* Orchestrator (rust-extract): extract_all, extract_types, extract_batch
\* ------------------------------------------------------------------------

Categories ==
    {"dates", "persons", "organizations", "amounts", "locations", "emails", "phones", "urls"}

Extractor(c, txt) ==
    CASE c = "dates"         -> extract_dates(txt)
      [] c = "persons"       -> extract_persons(txt)
      [] c = "organizations" -> extract_organizations(txt)
      [] c = "amounts"       -> extract_amounts(txt)
      [] c = "locations"     -> extract_locations(txt)
      [] c = "emails"        -> extract_emails(txt)
      [] c = "phones"        -> extract_phones(txt)
      [] c = "urls"          -> extract_urls(txt)

\* The extractors are pure: their outputs on the modelled documents are
\* computed once.
ExtractorOutput ==
    [t \in Texts \cup BatchTexts |-> [c \in Categories |-> Extractor(c, t)]]
Run(c, txt) == ExtractorOutput[txt][c]

\* Mutant: the urls are left out of the count.
total_count_NoUrls(dates, persons, orgs, amounts, locations, emails, phones, urls) ==
    Len(dates) + Len(persons) + Len(orgs) + Len(amounts)
    + Len(locations) + Len(emails) + Len(phones)

total_count(dates, persons, orgs, amounts, locations, emails, phones, urls) ==
    Len(dates) + Len(persons) + Len(orgs) + Len(amounts)
    + Len(locations) + Len(emails) + Len(phones) + Len(urls)

\* The ExtractionResult both entry points build from the eight lists.
ExtractionResult(dates, persons, orgs, amounts, locations, emails, phones, urls, ms) ==
    [dates              |-> dates,
     persons            |-> persons,
     organizations      |-> orgs,
     amounts            |-> amounts,
     locations          |-> locations,
     emails             |-> emails,
     phones             |-> phones,
     urls               |-> urls,
     total_count        |-> total_count(dates, persons, orgs, amounts, locations,
                                        emails, phones, urls),
     processing_time_ms |-> ms]

\* The join of extract_all: the outputs of the eight branches, each put in
\* its own field.  A panic of a branch is propagated once all have run.
Merge(o, ms) ==
    IF \E c \in Categories : ~o[c].ok THEN Panicked
    ELSE Returned(ExtractionResult(o["dates"].v, o["persons"].v, o["organizations"].v,
                                   o["amounts"].v, o["locations"].v, o["emails"].v,
                                   o["phones"].v, o["urls"].v, ms))

\* extract_all as one call measuring ms milliseconds.
extract_all(txt, ms) == Merge([c \in Categories |-> Run(c, txt)], ms)

\* Mutant: the branches share one set of seen values, so a branch drops the
\* values the branches completed before it have already reported.
SeenBy(o, finished) ==
    UNION { {to_lowercase(o[d].v[i].value) : i \in 1..Len(o[d].v)} : d \in finished }
FreshOf(es, seen) == SelectSeq(es, LAMBDA e : to_lowercase(e.value) \notin seen)
BranchOutput_SharedSeen(c, txt, o, finished) ==
    IF Run(c, txt).ok
    THEN Returned(FreshOf(Run(c, txt).v, SeenBy(o, finished \ {c})))
    ELSE Panicked

\* What a branch of the fork-join returns: its extractor's output on the
\* shared text; it reads nothing of the other branches (o, finished).
BranchOutput(c, txt, o, finished) == Run(c, txt)

\* extract_types: the extractors run one after the other, an unrequested
\* category gets vec![].
Requested(name, types) == name \in types
\* The condition of the if of category c: its name is among the requested
\* names; organizations also answers to "orgs".
Wanted(c, types) ==
    Requested(c, types) \/ (c = "organizations" /\ Requested("orgs", types))
\* Mutant: the extractor runs whether or not its category was requested.
IfRequested_Always(wanted, c, txt) == Run(c, txt)
IfRequested(wanted, c, txt) == IF wanted THEN Run(c, txt) ELSE Returned(<<>>)
extract_types(txt, types, ms) ==
    LET o == [c \in Categories |-> IfRequested(Wanted(c, types), c, txt)]
    IN  IF \E c \in Categories : ~o[c].ok THEN Panicked
        ELSE Returned(ExtractionResult(o["dates"].v, o["persons"].v, o["organizations"].v,
                                       o["amounts"].v, o["locations"].v, o["emails"].v,
                                       o["phones"].v, o["urls"].v, ms))

\* The names a request may carry: the category names, the alias and a name
\* that is no category.
TypeNames == Categories \cup {"orgs", "crypto"}
TypeSets == {ts \in SUBSET TypeNames : Cardinality(ts) <= MaxTypes}

\* Vec::collect of the indexed parallel iterator: the result of task i is
\* written to position i.
Place(results, i, r, ndone) == [results EXCEPT ![i] = r]

VARIABLES
    \* extract_all / extract_types
    text,        \* the text of the call
    op,          \* "none", "extract_all" or "extract_types"
    pc,          \* "idle", "forked", "returned" or "panicked"
    types,       \* the requested names of extract_types
    finished,    \* the branches of the fork-join that have completed
    out,         \* the output of each completed branch
    result,      \* the outcome of the call
    calls,       \* completed extract_all calls on text
    prev,        \* the outcome of the first of them
    \* extract_batch
    docs,        \* the documents of the batch
    batch,       \* "idle", "running", "returned" or "panicked"
    task,        \* per document: "todo", "running" or "done"
    slots,       \* the collected vector
    elapsed,     \* per document: the milliseconds its task measured
    \* highlight_entities
    ner_text,
    ner_pc,      \* "idle", "filter", "build", "done" or "panicked"
    all_entities,
    last_end,
    filtered,
    html,
    last_pos,
    entities_out,
    \* extract_entities
    entities     \* None, or Some(the list the call returned)

callVars  == <<text, op, pc, types, finished, out, result, calls, prev>>
batchVars == <<docs, batch, task, slots, elapsed>>
nerVars   == <<ner_text, ner_pc, all_entities, last_end, filtered, html, last_pos,
               entities_out, entities>>
vars == <<callVars, batchVars, nerVars>>

NoOutput == [c \in Categories |-> Returned(<<>>)]

CallInit ==
    /\ text = "" /\ op = "none" /\ pc = "idle" /\ types = {}
    /\ finished = {} /\ out = NoOutput /\ result = Panicked
    /\ calls = 0 /\ prev = Panicked
BatchInit ==
    /\ docs = <<>> /\ batch = "idle" /\ task = <<>> /\ slots = <<>> /\ elapsed = <<>>
NerInit ==
    /\ ner_text = "" /\ ner_pc = "idle" /\ all_entities = <<>> /\ last_end = 0
    /\ filtered = <<>> /\ html = "" /\ last_pos = 0 /\ entities_out = <<>>
    /\ entities = None

Init == CallInit /\ BatchInit /\ NerInit

\* --- extract_all: fork, eight branches in any order, join ---------------

CallExtractAll ==
    /\ pc = "idle"
    /\ \E t \in Texts : text' = t
    /\ op' = "extract_all" /\ pc' = "forked"
    /\ finished' = {} /\ out' = NoOutput
    /\ UNCHANGED <<types, result, calls, prev>>
    /\ UNCHANGED <<batchVars, nerVars>>

RunBranch ==
    /\ pc = "forked"
    /\ \E c \in Categories \ finished :
         /\ out' = [out EXCEPT ![c] = BranchOutput(c, text, out, finished)]
         /\ finished' = finished \cup {c}
    /\ UNCHANGED <<text, op, pc, types, result, calls, prev>>
    /\ UNCHANGED <<batchVars, nerVars>>

Join ==
    /\ pc = "forked" /\ finished = Categories
    /\ \E ms \in 0..MaxMs : result' = Merge(out, ms)
    /\ pc' = IF result'.ok THEN "returned" ELSE "panicked"
    /\ calls' = calls + 1
    /\ UNCHANGED <<text, op, types, finished, out, prev>>
    /\ UNCHANGED <<batchVars, nerVars>>

\* A second call of extract_all on the same text.
CallAgain ==
    /\ pc \in {"returned", "panicked"} /\ op = "extract_all" /\ calls = 1
    /\ prev' = result /\ pc' = "forked" /\ finished' = {} /\ out' = NoOutput
    /\ UNCHANGED <<text, op, types, result, calls>>
    /\ UNCHANGED <<batchVars, nerVars>>

CallExtractTypes ==
    /\ pc = "idle"
    /\ \E t \in Texts, ts \in TypeSets, ms \in 0..MaxMs :
         /\ text' = t /\ types' = ts
         /\ result' = extract_types(t, ts, ms)
    /\ op' = "extract_types"
    /\ pc' = IF result'.ok THEN "returned" ELSE "panicked"
    /\ UNCHANGED <<finished, out, calls, prev>>
    /\ UNCHANGED <<batchVars, nerVars>>

Next == CallExtractAll \/ RunBranch \/ Join \/ CallAgain \/ CallExtractTypes

Spec == Init /\ [][Next]_vars

\* --- extract_batch: one task per document, in any order -----------------

CallExtractBatch ==
    /\ batch = "idle"
    /\ \E ds \in SeqsUpTo(BatchTexts, MaxDocs) :
         /\ docs' = ds
         /\ task' = [i \in 1..Len(ds) |-> "todo"]
         /\ slots' = [i \in 1..Len(ds) |-> Panicked]
         /\ elapsed' = [i \in 1..Len(ds) |-> 0]
    /\ batch' = "running"
    /\ UNCHANGED <<callVars, nerVars>>

StartTask ==
    /\ batch = "running"
    /\ \E i \in 1..Len(docs) :
         /\ task[i] = "todo"
         /\ task' = [task EXCEPT ![i] = "running"]
    /\ UNCHANGED <<docs, batch, slots, elapsed>>
    /\ UNCHANGED <<callVars, nerVars>>

FinishTask ==
    /\ batch = "running"
    /\ \E i \in 1..Len(docs), ms \in 0..MaxMs :
         /\ task[i] = "running"
         /\ task' = [task EXCEPT ![i] = "done"]
         /\ slots' = Place(slots, i, extract_all(docs[i], ms),
                           Cardinality({j \in 1..Len(docs) : task[j] = "done"}))
         /\ elapsed' = [elapsed EXCEPT ![i] = ms]
    /\ UNCHANGED <<docs, batch>>
    /\ UNCHANGED <<callVars, nerVars>>

\* collect() returns once every task is done; a panic of a task is propagated.
Collect ==
    /\ batch = "running" /\ \A i \in 1..Len(docs) : task[i] = "done"
    /\ batch' = IF \A i \in 1..Len(docs) : slots[i].ok THEN "returned" ELSE "panicked"
    /\ UNCHANGED <<docs, task, slots, elapsed>>
    /\ UNCHANGED <<callVars, nerVars>>

NextBatch == CallExtractBatch \/ StartTask \/ FinishTask \/ Collect

SpecBatch == Init /\ [][NextBatch]_vars

\* --- highlight_entities --------------------------------------------------

NerFragments ==
    << "US New York Bank", "New York", "$5 M", "a@b.co", "1/2/23", "<R&D's>",
       "\"O'Neil\" &lt;" >>

NerTexts == Joined(NerFragments, 1, MaxFrags)

\* The six collection loops and the sort.
Collect6 ==
    /\ ner_pc = "idle"
    /\ \E t \in NerTexts :
         /\ ner_text' = t
         /\ all_entities' = sort_by_start(CollectAll(t))
    /\ ner_pc' = "filter"
    /\ last_end' = 0 /\ filtered' = <<>>
    /\ UNCHANGED <<html, last_pos, entities_out>>
    /\ UNCHANGED <<callVars, batchVars, entities>>

\* One iteration of the overlap-removal loop.
FilterStep ==
    /\ ner_pc = "filter" /\ all_entities # <<>>
    /\ LET entity == Head(all_entities)
       IN  IF Accepts(last_end, entity)
           THEN /\ last_end' = entity.end
                /\ filtered' = Append(filtered, entity)
           ELSE UNCHANGED <<last_end, filtered>>
    /\ all_entities' = Tail(all_entities)
    /\ UNCHANGED <<ner_text, ner_pc, html, last_pos, entities_out>>
    /\ UNCHANGED <<callVars, batchVars, entities>>

FilterDone ==
    /\ ner_pc = "filter" /\ all_entities = <<>>
    /\ ner_pc' = "build"
    /\ html' = "" /\ last_pos' = 0 /\ entities_out' = <<>>
    /\ UNCHANGED <<ner_text, all_entities, last_end, filtered>>
    /\ UNCHANGED <<callVars, batchVars, entities>>

\* One iteration of the markup loop; &text[last_pos..start] panics when the
\* range is reversed.
BuildStep ==
    /\ ner_pc = "build" /\ Len(entities_out) < Len(filtered)
    /\ LET e == filtered[Len(entities_out) + 1]
       IN  IF e.start < last_pos
           THEN /\ ner_pc' = "panicked"
                /\ UNCHANGED <<html, last_pos, entities_out>>
           ELSE /\ html' = html \o escape_html(Slice(ner_text, last_pos, e.start))
                             \o SpanMarkup(e)
                /\ entities_out' = Append(entities_out, HighlightedEntity(e))
                /\ last_pos' = e.end
                /\ UNCHANGED ner_pc
    /\ UNCHANGED <<ner_text, all_entities, last_end, filtered>>
    /\ UNCHANGED <<callVars, batchVars, entities>>

\* The text after the last span; the HighlightResult is (html, entities_out,
\* Len(entities_out)).
BuildDone ==
    /\ ner_pc = "build" /\ Len(entities_out) = Len(filtered)
    /\ html' = html \o escape_html(Slice(ner_text, last_pos, Len(ner_text)))
    /\ ner_pc' = "done"
    /\ UNCHANGED <<ner_text, all_entities, last_end, filtered, last_pos, entities_out>>
    /\ UNCHANGED <<callVars, batchVars, entities>>

\* extract_entities, called once on the text highlight_entities was given.
CallExtractEntities ==
    /\ ner_pc # "idle" /\ entities = None
    /\ entities' = Some(extract_entities(ner_text))
    /\ UNCHANGED <<ner_text, ner_pc, all_entities, last_end, filtered, html, last_pos,
                   entities_out>>
    /\ UNCHANGED <<callVars, batchVars>>

NextNer ==
    Collect6 \/ FilterStep \/ FilterDone \/ BuildStep \/ BuildDone \/ CallExtractEntities

SpecNer == Init /\ [][NextNer]_vars
\* ------------------------------------------------------------------------
\* Claims
\* ------------------------------------------------------------------------

\* Consecutive spans are in start order and do not overlap.
SortedDisjoint(spans) ==
    \A i \in 1..(Len(spans) - 1) :
        /\ spans[i].start <= spans[i + 1].start
        /\ spans[i].end <= spans[i + 1].start

\* C1: the spans highlight_entities accepts, and the entity list it returns,
\* are sorted by start offset and no two of them overlap (span[i].end <=
\* span[i+1].start), whatever the six scans matched; every accepted span is
\* returned.
C1_SortedNonOverlapping ==
    /\ SortedDisjoint(filtered)
    /\ ner_pc # "panicked"
    /\ ner_pc = "done" =>
         /\ SortedDisjoint(entities_out)
         /\ Len(entities_out) = Len(filtered)

\* A call that returned two spans or more after dropping raw matches of
\* other categories that overlapped an accepted one.
C1_Witness ==
    /\ ner_pc = "done"
    /\ Len(entities_out) >= 2
    /\ LET raw == CollectAll(ner_text)
       IN  \E i, j \in 1..Len(raw) :
             /\ raw[i].entity_type # raw[j].entity_type
             /\ raw[i].start < raw[j].end /\ raw[j].start < raw[i].end

\* The markup with every <...> tag removed.
RECURSIVE StripTags(_)
StripTags(h) ==
    LET opens == {i \in 0..(Len(h) - 1) : At(h, i) = "<"}
    IN  IF opens = {} THEN h
        ELSE LET i      == CHOOSE a \in opens : \A b \in opens : a <= b
                 closes == {j \in i..(Len(h) - 1) : At(h, j) = ">"}
                 j      == CHOOSE a \in closes : \A b \in closes : a <= b
             IN  Slice(h, 0, i) \o StripTags(Slice(h, j + 1, Len(h)))

StartsWith(s, p) == Len(s) >= Len(p) /\ Slice(s, 0, Len(p)) = p

\* The five character references decoded, in one pass from left to right.
RECURSIVE Unescape(_)
Unescape(s) ==
    LET amps == {i \in 0..(Len(s) - 1) : At(s, i) = "&"}
    IN  IF amps = {} THEN s
        ELSE LET i    == CHOOSE a \in amps : \A b \in amps : a <= b
                 rest == Slice(s, i, Len(s))
                 ref  == CASE StartsWith(rest, "&amp;")  -> <<"&amp;", "&">>
                           [] StartsWith(rest, "&lt;")   -> <<"&lt;", "<">>
                           [] StartsWith(rest, "&gt;")   -> <<"&gt;", ">">>
                           [] StartsWith(rest, "&quot;") -> <<"&quot;", "\"">>
                           [] StartsWith(rest, "&#x27;") -> <<"&#x27;", "'">>
                           [] OTHER                      -> <<"&", "&">>
             IN  Slice(s, 0, i) \o ref[2]
                 \o Unescape(Slice(rest, Len(ref[1]), Len(rest)))

\* C2: removing the span tags from the html of highlight_entities and
\* reversing the escaping of & < > " ' gives back the text.
C2_MarkupRoundTrip ==
    ner_pc = "done" => Unescape(StripTags(html)) = ner_text

\* A returned markup with a span in it, of a text that needed escaping.
C2_Witness ==
    /\ ner_pc = "done"
    /\ Len(entities_out) >= 1
    /\ Contains(ner_text, "&") /\ Contains(ner_text, "<") /\ Contains(ner_text, "'")
    /\ html # ner_text
\* The eight lists of an ExtractionResult.
ListsOf(r) == [c \in Categories |-> r[c]]

\* C3: extract_batch returns for every list of documents, with exactly one
\* result per document, the result at index i being extract_all(documents[i])
\* whatever the order in which the tasks started and finished.
C3_BatchEqualsExtractAll ==
    batch \in {"returned", "panicked"} =>
        /\ batch = "returned"
        /\ Len(slots) = Len(docs)
        /\ \A i \in 1..Len(docs) :
             /\ slots[i].ok
             /\ extract_all(docs[i], elapsed[i]).ok
             /\ slots[i].v = extract_all(docs[i], elapsed[i]).v

\* C4: within each of the eight category lists no two entities have the
\* same value under lowercase comparison.
C4_UniqueWithinCategory ==
    \A c \in finished :
        out[c].ok =>
            \A i, j \in 1..Len(out[c].v) :
                i < j => to_lowercase(out[c].v[i].value) # to_lowercase(out[c].v[j].value)

\* The offsets of an entity lie in the text and delimit its value.
WellPlaced(e, txt) ==
    /\ 0 <= e.start /\ e.start < e.end /\ e.end <= Len(txt)
    /\ Slice(txt, e.start, e.end) = e.value

\* C5: for every entity returned by a category extractor (as a branch of
\* extract_all or in a result of extract_types), 0 <= start < end <=
\* length(text) and text[start..end] = value.
C5_OffsetsDelimitValue ==
    /\ \A c \in finished :
         out[c].ok => \A i \in 1..Len(out[c].v) : WellPlaced(out[c].v[i], text)
    /\ pc = "returned" =>
         \A c \in Categories :
             \A i \in 1..Len(result.v[c]) : WellPlaced(result.v[c][i], text)

\* A returned result with an entity of the pattern rules and an e-mail
\* entity that starts inside the text.
C5_Witness ==
    /\ pc = "returned"
    /\ result.v["locations"] # <<>>
    /\ \E i \in 1..Len(result.v["emails"]) : result.v["emails"][i].start > 0

\* C6: in every result of extract_all and of extract_types, total_count is
\* the sum of the lengths of the eight category lists of that result.
C6_TotalCountIsSum ==
    pc = "returned" =>
        result.v.total_count =
            Len(result.v.dates) + Len(result.v.persons) + Len(result.v.organizations)
            + Len(result.v.amounts) + Len(result.v.locations) + Len(result.v.emails)
            + Len(result.v.phones) + Len(result.v.urls)

\* A result of extract_types that counts a url and persons after the
\* blacklist dropped one, with a category left out that had entities.
C6_Witness ==
    /\ pc = "returned" /\ op = "extract_types"
    /\ types = {"persons", "urls"}
    /\ result.v.urls # <<>>
    /\ Len(result.v.persons) <
         Len(extract_with_patterns(text, PERSON_PATTERNS, "person", 75).v)
    /\ Run("phones", text).v # <<>>

\* The category is named in the request.
Named(c, requested) ==
    c \in requested \/ (c = "organizations" /\ "orgs" \in requested)

\* C7: extract_types fills a category's list with the output of its
\* extractor exactly when the category is named in the request
\* ("organizations" or "orgs" for organizations), leaves every other list
\* empty, and a name that is no category changes nothing: the outcome is the
\* one of the request without that name.
C7_OnlyNamedCategories ==
    (op = "extract_types" /\ pc \in {"returned", "panicked"}) =>
        /\ result.ok <=> \A c \in Categories : Named(c, types) => Run(c, text).ok
        /\ result.ok =>
             \A c \in Categories :
                 result.v[c] = IF Named(c, types) THEN Run(c, text).v ELSE <<>>
        /\ \A ms \in 0..MaxMs :
             extract_types(text, types \ {"crypto"}, ms) = extract_types(text, types, ms)

\* A request of the alias and of an unknown name, on a text with an
\* organization and with entities of a category that was not requested.
C7_Witness ==
    /\ op = "extract_types" /\ pc = "returned"
    /\ types = {"orgs", "crypto"}
    /\ result.v.organizations # <<>>
    /\ Run("locations", text).v # <<>>
    /\ result.v.locations = <<>>

\* C8 (as stated): two calls of extract_all on the same text produce
\* identical results.
C8_IdenticalResults ==
    calls = 2 => result = prev

\* C8 (amended): every branch of the fork-join returns what its extractor
\* gives on the text alone, whatever branches completed before it, and two
\* calls on the same text have the same outcome with the same eight lists
\* and total_count; processing_time_ms is measured by each call.
C8_SameListsAnyOrder ==
    /\ \A c \in finished : out[c] = Run(c, text)
    /\ calls = 2 =>
         /\ result.ok = prev.ok
         /\ result.ok =>
              /\ ListsOf(result.v) = ListsOf(prev.v)
              /\ result.v.total_count = prev.v.total_count

\* Two calls that returned, measuring different times, on a text where one
\* value is found by two categories.
C8_Witness ==
    /\ calls = 2 /\ pc = "returned" /\ prev.ok
    /\ result.v.processing_time_ms # prev.v.processing_time_ms
    /\ \E i \in 1..Len(result.v.persons), j \in 1..Len(result.v.locations) :
         result.v.persons[i].value = result.v.locations[j].value

\* C9: every call completes without failing, for every text; on the empty
\* text every list is empty and total_count is 0.
C9_NeverFails ==
    /\ pc # "panicked"
    /\ (pc = "returned" /\ text = "") =>
         /\ \A c \in Categories : result.v[c] = <<>>
         /\ result.v.total_count = 0

\* The normalized number the written rule gives: separators and currency
\* symbols stripped, the leading token parsed, scaled by the word "million",
\* else by the word "billion", else left as it is; 0 when it does not parse.
ClaimedNormalized(entity_value) ==
    LET value == replace(replace(replace(replace(replace(entity_value, ",", ""), "$", ""),
                                         Euro, ""), Pound, ""), Yen, "")
    IN  IF Contains(to_lowercase(value), "million") THEN ParseScaled(value, 6)
        ELSE IF Contains(to_lowercase(value), "billion") THEN ParseScaled(value, 9)
        ELSE ParseScaled(value, 0)

\* C10: the "normalized" metadata of every amount entity is the leading
\* numeric token of its value scaled by 1,000,000 for "million", else by
\* 1,000,000,000 for "billion", and unscaled otherwise (a currency code such
\* as GBP or a suffix M or B does not scale).
C10_NormalizedAsClaimed ==
    ("amounts" \in finished /\ out["amounts"].ok) =>
        \A i \in 1..Len(out["amounts"].v) :
            LET e == out["amounts"].v[i]
            IN  e.metadata = Some([normalized |-> f64_to_string(ClaimedNormalized(e.value))])
\* C11: every raw match highlight_entities collects, of any of its six
\* categories, is in the list extract_entities returns for the same text.
C11_EveryRawMatchReturned ==
    entities # None =>
      \A k \in 1..Len(all_entities) :
        \E n \in 1..Len(entities[1]) : entities[1][n] = HighlightedEntity(all_entities[k])

\* The order of the categories of the highlighter.
CategoryRank(entity_type) ==
    CASE entity_type = "person"       -> 1
      [] entity_type = "organization" -> 2
      [] entity_type = "amount"       -> 3
      [] entity_type = "date"         -> 4
      [] entity_type = "location"     -> 5
      [] entity_type = "email"        -> 6

\* a comes before b: by start offset, then by category.  (The matches of one
\* category have different start offsets.)
ComesBefore(a, b) ==
    \/ a.start < b.start
    \/ a.start = b.start /\ CategoryRank(a.entity_type) < CategoryRank(b.entity_type)

ByStartThenCategory(raw) ==
    LET place == [i \in 1..Len(raw) |->
                    1 + Cardinality({j \in 1..Len(raw) : ComesBefore(raw[j], raw[i])})]
    IN  [n \in 1..Len(raw) |-> raw[CHOOSE i \in 1..Len(raw) : place[i] = n]]

\* The matches of ordered[k..] a cursor accepts.
RECURSIVE CursorAccepted(_, _, _)
CursorAccepted(ordered, k, cursor) ==
    IF k > Len(ordered) THEN <<>>
    ELSE IF ordered[k].start >= cursor
         THEN <<ordered[k]>> \o CursorAccepted(ordered, k + 1, ordered[k].end)
         ELSE CursorAccepted(ordered, k + 1, cursor)

\* C12: once the overlap removal of highlight_entities is over, the accepted
\* spans are those a cursor starting at 0 accepts from the raw matches
\* ordered by start offset and, at equal start, by category (person,
\* organization, amount, date, location, email); of the raw matches that
\* start at one offset only the one of the earliest category can be accepted.
C12_GreedyByStartThenCategory ==
    ner_pc \in {"build", "done", "panicked"} =>
      LET raw == CollectAll(ner_text)
      IN  /\ filtered = CursorAccepted(ByStartThenCategory(raw), 1, 0)
          /\ \A a \in 1..Len(filtered), k \in 1..Len(raw) :
                raw[k].start = filtered[a].start
                  => CategoryRank(filtered[a].entity_type) <= CategoryRank(raw[k].entity_type)

\* A finished call with two accepted spans, one of which won over a raw match
\* of a later category that starts at the same offset.
C12_Witness ==
    /\ ner_pc = "done" /\ Len(filtered) >= 2
    /\ LET raw == CollectAll(ner_text)
       IN  \E a \in 1..Len(filtered), k \in 1..Len(raw) :
             /\ raw[k].start = filtered[a].start
             /\ CategoryRank(filtered[a].entity_type) < CategoryRank(raw[k].entity_type)

\* Two spans share at least one byte.
Overlaps(a, b) == a.start < b.end /\ b.start < a.end

\* The raw matches of the text that are not among the accepted spans.
Dropped(raw, accepted) ==
    SelectSeq(raw, LAMBDA r : \A a \in 1..Len(accepted) : accepted[a] # r)

\* C13: once the overlap removal of highlight_entities is over, every raw
\* match that was dropped overlaps at least one accepted span.
C13_DroppedOverlapsAccepted ==
    ner_pc \in {"build", "done", "panicked"} =>
      LET dropped == Dropped(CollectAll(ner_text), filtered)
      IN  \A d \in 1..Len(dropped) :
            \E a \in 1..Len(filtered) : Overlaps(dropped[d], filtered[a])

\* A finished call that dropped a raw match starting after the start of the
\* accepted span it overlaps, and accepted a span after it.
C13_Witness ==
    /\ ner_pc = "done"
    /\ LET dropped == Dropped(CollectAll(ner_text), filtered)
       IN  \E d \in 1..Len(dropped), a \in 1..Len(filtered), b \in 1..Len(filtered) :
             /\ Overlaps(dropped[d], filtered[a])
             /\ filtered[a].start < dropped[d].start
             /\ filtered[b].start >= dropped[d].end

\* No entry of the stopword list occurs anywhere in the lowercased value.
NoStopwordInside(value) ==
    LET lower == to_lowercase(value)
    IN  \A b \in blacklist : \A i \in 0..(Len(lower) - Len(b)) :
          Slice(lower, i, i + Len(b)) # b

\* The positions of es at which the entities of kept stand, one after the
\* other: kept is es with some entities left out.
InSameOrder(kept, es) ==
    \A i \in 1..Len(kept) : \A j \in (i + 1)..Len(kept) :
      \E p \in 1..Len(es) : \E q \in (p + 1)..Len(es) : es[p] = kept[i] /\ es[q] = kept[j]

\* What the person rules find in each document, before the filter.
FoundByPersonRules ==
    [t \in Texts |-> extract_with_patterns(t, PERSON_PATTERNS, "person", 75)]

\* C14: the persons list of a call is made of the entities the person rules
\* find whose lowercased value holds no stopword as a substring, and of no
\* other; the entities kept are in the order in which they were found.
C14_StopwordSubstringFilter ==
    ("persons" \in finished /\ out["persons"].ok) =>
      LET found   == FoundByPersonRules[text]
          persons == out["persons"].v
      IN  /\ found.ok
          /\ \A k \in 1..Len(found.v) :
                (\E n \in 1..Len(persons) : persons[n] = found.v[k])
                  <=> NoStopwordInside(found.v[k].value)
          /\ \A n \in 1..Len(persons) : \E k \in 1..Len(found.v) : found.v[k] = persons[n]
          /\ InSameOrder(persons, found.v)

\* The persons branch has kept two names and dropped, between them, a name
\* that holds a stopword only as a part of a longer word.
C14_Witness ==
    /\ "persons" \in finished /\ out["persons"].ok
    /\ Len(out["persons"].v) = 2
    /\ LET found == FoundByPersonRules[text].v
       IN  \E k \in 1..Len(found) :
             /\ PersonKept_WholeWord(found[k])
             /\ ~NoStopwordInside(found[k].value)
             /\ out["persons"].v[1].start < found[k].start
             /\ found[k].start < out["persons"].v[2].start

\* The categories built by extract_with_patterns, and their rules.
ScannedCategories == {"dates", "persons", "organizations", "amounts", "locations"}
RulesOf(c) ==
    CASE c = "dates"         -> DATE_PATTERNS
      [] c = "persons"       -> PERSON_PATTERNS
      [] c = "organizations" -> ORG_PATTERNS
      [] c = "amounts"       -> AMOUNT_PATTERNS
      [] c = "locations"     -> LOCATION_PATTERNS

\* The matches of the rules numbered from..Len(rules), rule after rule and
\* left to right within a rule, each with the number of its rule.
RECURSIVE Encounters(_, _, _)
Encounters(rules, from, txt) ==
    IF from > Len(rules) THEN <<>>
    ELSE LET ms == FindIter(rules[from], txt)
         IN  [k \in 1..Len(ms) |->
                [value |-> Slice(txt, ms[k].start, ms[k].end),
                 start |-> ms[k].start, end |-> ms[k].end, rule |-> from]]
             \o Encounters(rules, from + 1, txt)

\* Of the encounters, those whose lowercased value no earlier encounter has.
FirstEncounters(enc) ==
    LET first == {k \in 1..Len(enc) :
                    \A j \in 1..(k - 1) :
                      to_lowercase(enc[j].value) # to_lowercase(enc[k].value)}
        nth(n) == CHOOSE k \in first : Cardinality({j \in first : j < k}) = n - 1
    IN  [n \in 1..Cardinality(first) |-> enc[nth(n)]]

EncountersIn ==
    [t \in Texts |-> [c \in ScannedCategories |-> Encounters(RulesOf(c), 1, t)]]

\* The filter a category applies to what the routine returns.
KeptBy(c, e) ==
    CASE c = "persons"       -> NoStopwordInside(e.value)
      [] c = "organizations" -> (Len(e.value) > 3 \/ e.value \in known)
      [] OTHER               -> TRUE

\* C15: the list of a category built by the rule-scanning routine holds, for
\* each lowercased value, the first match met when the rules are tried in
\* their order and each scans the text from the left, with the offsets of
\* that match, in the order in which these first matches are met (those of
\* an earlier rule before those of a later one); persons and organizations
\* then leave out what their filter rejects.
C15_FirstEncounterWins ==
    \A c \in ScannedCategories :
      (c \in finished /\ out[c].ok) =>
        LET firsts == SelectSeq(FirstEncounters(EncountersIn[text][c]),
                                LAMBDA e : KeptBy(c, e))
            list   == out[c].v
        IN  /\ Len(list) = Len(firsts)
            /\ \A n \in 1..Len(list) :
                  /\ list[n].value = firsts[n].value
                  /\ list[n].start = firsts[n].start
                  /\ list[n].end = firsts[n].end
            /\ \A n \in 1..Len(firsts) : \A m \in (n + 1)..Len(firsts) :
                  firsts[n].rule <= firsts[m].rule

\* The amounts branch returned a list in which an entity of a later rule
\* starts before the entity of an earlier rule that precedes it, and a value
\* met twice is kept once, with the offsets of its first match.
C15_Witness ==
    /\ "amounts" \in finished /\ out["amounts"].ok
    /\ LET list == out["amounts"].v
           enc  == EncountersIn[text]["amounts"]
       IN  /\ \E n \in 1..Len(list) : \E m \in (n + 1)..Len(list) :
                 list[m].start < list[n].start
           /\ \E j \in 1..Len(enc) : \E k \in (j + 1)..Len(enc) :
                 /\ to_lowercase(enc[j].value) = to_lowercase(enc[k].value)
                 /\ enc[j].start < enc[k].start
                 /\ \E n \in 1..Len(list) :
                       list[n].value = enc[j].value /\ list[n].start = enc[j].start
                 /\ ~\E n \in 1..Len(list) : list[n].start = enc[k].start

====
